---------------------------- MODULE Spec2Model ----------------------------
(***************************************************************************)
(* EDSM multi-pather (src/main.py): the EDSMCalculator session object and  *)
(* the NiceGUI handlers that drive it.                                     *)
(*                                                                         *)
(* Numbers.  The program computes with float64.  The model draws all      *)
(* coordinates from Universe, four systems whose pairwise Euclidean        *)
(* distances are the integers 5, 12, 13 and 24, and all jump ranges from   *)
(* small integers; on these values math.sqrt, +, / and math.ceil are exact *)
(* in float64, so integer arithmetic computes what the program computes.   *)
(***************************************************************************)
EXTENDS Integers, Sequences, FiniteSets, TLC

\* ------------------------------------------------------------------ bounds
\* longest live route the handlers build
MaxLen == 3
\* longest route a method is called on directly
MaxRoute == 4
\* most records the history holds before Calculate Route is no longer explored
MaxLog == 4
\* most Add System lookups issued in one run
MaxReq == 2
\* latest wall-clock second explored
MaxClock == 1
\* longest CSV file (data rows) handed directly to import_route_from_csv
MaxRows == 2
\* longest CSV file (data rows) the user uploads
MaxUploadRows == 1
\* largest distance handed directly to calculate_jumps
MaxDist == 14

\* ------------------------------------------------------------------ values
Point(n, x, y, z) == [name |-> n, coordinates |-> [x |-> x, y |-> y, z |-> z]]

\* what the coordinate service knows: name -> system
Universe ==
    { Point("A", 0, 0, 0), Point("B", 12, 0, 0),
      Point("C", 12, 3, 4), Point("D", 24, 0, 0) }

KnownNames == { p.name : p \in Universe }

Lookup(n) == CHOOSE p \in Universe : p.name = n

RECURSIVE SeqsUpTo(_, _)
SeqsUpTo(S, n) ==
    IF n = 0 THEN { <<>> }
    ELSE LET shorter == SeqsUpTo(S, n - 1)
         IN  shorter \cup { Append(s, e) : s \in { t \in shorter : Len(t) = n - 1 }, e \in S }

Routes == SeqsUpTo(Universe, MaxRoute)

\* Python's None, where the model only ever compares it with strings
None == "None"

\* values of the jump-range number field: None until it is filled in, then
\* a number
NoNumber == [is_none |-> TRUE, v |-> 0]
Number(v) == [is_none |-> FALSE, v |-> v]
RangeInputs == { NoNumber, Number(10) }
\* jump ranges handed directly to calculate_jumps
RangeArgs == { -3, 0, 1, 5, 10 }

\* names the user can put into the system field
TypedNames == { "A", "B" }

VARIABLES
    systems,                  \* calculator.systems
    route_log,                \* calculator.route_log
    jump_range,               \* calculator.jump_range
    jump_range_input,         \* jump_range_input.value
    system_input,             \* system_input.value
    systems_table,            \* systems_table.rows
    results_table,            \* results_table.rows
    optimized_results_table,  \* optimized_results_table.rows
    total_label,              \* total_label.text
    jumps_label,              \* jumps_label.text
    optimized_total_label,    \* optimized_total_label.text
    optimized_jumps_label,    \* optimized_jumps_label.text
    route_history_table,      \* route_history_table.rows
    pending,                  \* add_system coroutines suspended in the lookup
    clock,                    \* the wall clock as last read, in seconds
    issued,                   \* history: how many lookups were started so far
    origin,                   \* history: for each element of systems, the lookup
                              \* that appended it (0: it came from a file)
    cleared_upto,             \* history: the value of issued at the last Clear All
    ret                       \* what the last direct method call returned

\* ------------------------------------------------------------ EDSMCalculator
Sqrt(n) == CHOOSE r \in 0..n : r * r = n

calculate_distance(coords1, coords2) ==
    Sqrt( (coords2.x - coords1.x) * (coords2.x - coords1.x)
        + (coords2.y - coords1.y) * (coords2.y - coords1.y)
        + (coords2.z - coords1.z) * (coords2.z - coords1.z) )

\* the loop of calculate_route_distances, from index i on, with the
\* accumulators distances and total_distance
RECURSIVE RouteDistancesLoop(_, _, _, _)
RouteDistancesLoop(s, i, distances, total_distance) ==
    IF i > Len(s) - 1 THEN <<distances, total_distance>>
    ELSE LET system1 == s[i]
             system2 == s[i + 1]
             distance == calculate_distance(system1.coordinates, system2.coordinates)
         IN  RouteDistancesLoop(s, i + 1,
                 Append(distances, <<system1.name, system2.name, distance>>),
                 total_distance + distance)

\* mutant: the loop starts at the second system
calculate_route_distances_from_second(s) == RouteDistancesLoop(s, 2, <<>>, 0)

calculate_route_distances(s) == RouteDistancesLoop(s, 1, <<>>, 0)

\* itertools.permutations(s): every ordering of s, as a sequence, in
\* lexicographic order of the positions the elements have in s
RemoveAt(s, i) == SubSeq(s, 1, i - 1) \o SubSeq(s, i + 1, Len(s))

\* mutant: only the ordering the input has
permutations_input_order_only(s) == << s >>

RECURSIVE permutations(_), PermutationsFrom(_, _)
\* the permutations that start with s[i], then those that start with s[i+1], ...
PermutationsFrom(s, i) ==
    IF i > Len(s) THEN <<>>
    ELSE LET rest == permutations(RemoveAt(s, i))
         IN  [k \in 1..Len(rest) |-> <<s[i]>> \o rest[k]] \o PermutationsFrom(s, i + 1)

permutations(s) == IF Len(s) = 0 THEN << <<>> >> ELSE PermutationsFrom(s, 1)

\* sum(calculate_distance(route[i], route[i+1]) for i in range(len(route)-1))
RECURSIVE SumLegs(_, _)
SumLegs(route, i) ==
    IF i > Len(route) - 1 THEN 0
    ELSE calculate_distance(route[i].coordinates, route[i + 1].coordinates)
         + SumLegs(route, i + 1)

\* float('inf') and the finite floats, and < between them
Infinity == [inf |-> TRUE, v |-> 0]
Finite(n) == [inf |-> FALSE, v |-> n]
FloatLess(a, b) == ~a.inf /\ (b.inf \/ a.v < b.v)

\* mutant: total_distance <= shortest_distance
NotLonger(total_distance, shortest_distance) ==
    ~FloatLess(shortest_distance, Finite(total_distance))

\* total_distance < shortest_distance
Shorter(total_distance, shortest_distance) ==
    FloatLess(Finite(total_distance), shortest_distance)

\* the for loop of optimize_route over perms[k..], with the accumulators
\* shortest_distance and shortest_route
RECURSIVE OptimizeLoop(_, _, _, _, _)
OptimizeLoop(s, perms, k, shortest_distance, shortest_route) ==
    IF k > Len(perms) THEN shortest_route
    ELSE LET route == <<s[1]>> \o perms[k]
             total_distance == SumLegs(route, 1)
         IN  IF Shorter(total_distance, shortest_distance)
             THEN OptimizeLoop(s, perms, k + 1, Finite(total_distance), route)
             ELSE OptimizeLoop(s, perms, k + 1, shortest_distance, shortest_route)

\* mutant: the shortest order is written back into self.systems, which is
\* returned
optimize_route_in_place(s) ==
    IF Len(s) < 2
    THEN [result |-> s, is_self_systems |-> TRUE, self_systems |-> s]
    ELSE LET shortest_route ==
                 OptimizeLoop(s, permutations(SubSeq(s, 2, Len(s))), 1, Infinity, None)
         IN  [result |-> shortest_route, is_self_systems |-> TRUE,
              self_systems |-> shortest_route]

\* optimize_route as a call on the calculator: what it returns, whether the
\* returned object is the list self.systems itself, and self.systems afterwards
optimize_route_call(s) ==
    IF Len(s) < 2
    THEN [result |-> s, is_self_systems |-> TRUE, self_systems |-> s]
    ELSE [result |-> OptimizeLoop(s, permutations(SubSeq(s, 2, Len(s))), 1, Infinity, None),
          is_self_systems |-> FALSE,
          self_systems |-> s]

optimize_route(s) == optimize_route_call(s).result

\* [system['name'] for system in systems]
Names(s) == [i \in 1..Len(s) |-> s[i].name]

\* mutant: a route equal to the last one logged is not logged again
log_route_deduplicated(log, s, total_distance, now) ==
    IF /\ log # <<>>
       /\ log[Len(log)].systems = [i \in 1..Len(s) |-> s[i].name]
       /\ log[Len(log)].distance = total_distance
    THEN log
    ELSE Append(log, [timestamp |-> now, systems |-> [i \in 1..Len(s) |-> s[i].name],
                      distance |-> total_distance])

log_route(log, s, total_distance, now) ==
    Append(log, [timestamp |-> now, systems |-> Names(s), distance |-> total_distance])

\* math.ceil(a / b) for b > 0
Ceil(a, b) == IF a % b = 0 THEN a \div b ELSE (a \div b) + 1

calculate_jumps(distance, range) ==
    IF range <= 0 THEN 0 ELSE Ceil(distance, range)

\* ----------------------------------------------------------------- CSV
\* A CSV file as pandas.read_csv sees it: whether it can be read at all, the
\* header's column names, and the data rows, each cell the text in the file.
RequiredColumns == { "System Name", "X", "Y", "Z" }

\* the texts float() accepts, and the number each one is; every other text
\* of the model ("abc") makes float() raise ValueError.  Cells that pandas
\* reads as missing (empty, "n/a") become NaN, which float() accepts; the
\* model's files hold none
NumericText == { "0", "3", "4", "12", "24" }
FloatOf(text) ==
    CASE text = "0" -> 0 [] text = "3" -> 3 [] text = "4" -> 4
      [] text = "12" -> 12 [] text = "24" -> 24

\* str() of a coordinate, as csv.writer writes it
TextOf(n) == CHOOSE text \in NumericText : FloatOf(text) = n

CsvRow(n, x, y, z) == [name |-> n, X |-> x, Y |-> y, Z |-> z]

\* the row export_route_to_csv writes for a system
RowOf(system) ==
    CsvRow(system.name, TextOf(system.coordinates.x),
           TextOf(system.coordinates.y), TextOf(system.coordinates.z))

\* rows found in uploaded files: two exported systems, and a row with a cell
\* that is not a number
CsvRows ==
    { RowOf(Lookup("A")), RowOf(Lookup("C")), CsvRow("B", "12", "0", "abc") }

CsvHeaders ==
    { RequiredColumns, { "System Name", "X", "Y" }, RequiredColumns \cup { "Notes" } }

\* the files the user uploads: an exported system the user cannot type, and
\* a row with a cell that is not a number
UploadRows == { RowOf(Lookup("C")), CsvRow("B", "12", "0", "abc") }

Uploads ==
    { [readable |-> FALSE, columns |-> {}, rows |-> <<>>] }
    \cup { [readable |-> TRUE, columns |-> h, rows |-> rows] :
             h \in CsvHeaders, rows \in SeqsUpTo(UploadRows, MaxUploadRows) }

\* the files handed directly to import_route_from_csv
CsvFiles ==
    { [readable |-> FALSE, columns |-> {}, rows |-> <<>>] }
    \cup { [readable |-> TRUE, columns |-> h, rows |-> rows] :
             h \in CsvHeaders, rows \in SeqsUpTo(CsvRows, MaxRows) }

\* the for loop of import_route_from_csv from row i on: the systems imported
\* so far, or the ValueError that float() raised
RECURSIVE ImportLoop(_, _, _)
ImportLoop(rows, i, imported_systems) ==
    IF i > Len(rows) THEN [raised |-> FALSE, imported_systems |-> imported_systems]
    ELSE LET row == rows[i]
         IN  IF row.X \notin NumericText \/ row.Y \notin NumericText \/ row.Z \notin NumericText
             THEN [raised |-> TRUE, imported_systems |-> imported_systems]
             ELSE ImportLoop(rows, i + 1,
                      Append(imported_systems,
                             Point(row.name, FloatOf(row.X), FloatOf(row.Y), FloatOf(row.Z))))

\* mutant: each row is appended to self.systems as soon as it is decoded
import_route_from_csv_row_by_row(s, file) ==
    IF ~file.readable
    THEN [success |-> FALSE, message |-> "Error importing CSV: read_csv", systems |-> s]
    ELSE IF ~(RequiredColumns \subseteq file.columns)
    THEN [success |-> FALSE,
          message |-> "Invalid CSV format. Required columns: System Name, X, Y, Z",
          systems |-> s]
    ELSE LET loop == ImportLoop(file.rows, 1, <<>>)
         IN  IF loop.raised
             THEN [success |-> FALSE, message |-> "Error importing CSV: float",
                   systems |-> s \o loop.imported_systems]
             ELSE [success |-> TRUE,
                   message |-> "Successfully imported " \o ToString(Len(loop.imported_systems))
                               \o " systems",
                   systems |-> s \o loop.imported_systems]

\* import_route_from_csv on a calculator whose systems are s: the returned
\* pair and self.systems afterwards
import_route_from_csv(s, file) ==
    IF ~file.readable
    THEN [success |-> FALSE, message |-> "Error importing CSV: read_csv", systems |-> s]
    ELSE IF ~(RequiredColumns \subseteq file.columns)
    THEN [success |-> FALSE,
          message |-> "Invalid CSV format. Required columns: System Name, X, Y, Z",
          systems |-> s]
    ELSE LET loop == ImportLoop(file.rows, 1, <<>>)
         IN  IF loop.raised
             THEN [success |-> FALSE, message |-> "Error importing CSV: float",
                   systems |-> s]
             ELSE [success |-> TRUE,
                   message |-> "Successfully imported " \o ToString(Len(loop.imported_systems))
                               \o " systems",
                   systems |-> s \o loop.imported_systems]

\* export_route_to_csv: False on an empty route or when the file cannot be
\* written, True with the file written otherwise
export_route_to_csv(s, writable) ==
    IF s = <<>> THEN [success |-> FALSE, written |-> FALSE]
    ELSE IF ~writable THEN [success |-> FALSE, written |-> FALSE]
    ELSE [success |-> TRUE, written |-> TRUE]


\* ------------------------------------------------------------ formatting
\* f"{v:.2f}" of a float whose value is the integer v
Format2f(v) == ToString(v) \o ".00"

format_system_row(system) ==
    [name |-> system.name,
     x |-> Format2f(system.coordinates.x),
     y |-> Format2f(system.coordinates.y),
     z |-> Format2f(system.coordinates.z)]

\* ' -> '.join(names), the arrow of the source written in ASCII
RECURSIVE Join(_, _)
Join(names, i) ==
    IF i > Len(names) THEN ""
    ELSE IF i = Len(names) THEN names[i]
    ELSE names[i] \o " -> " \o Join(names, i + 1)

format_route_row(route) ==
    [timestamp |-> route.timestamp,
     systems |-> Join(route.systems, 1),
     distance |-> Format2f(route.distance)]

\* update_systems_table: the rows it sets for the live route s
SystemRows(s) == [i \in 1..Len(s) |-> format_system_row(s[i])]

\* update_route_history: the rows it sets for the log
HistoryRows(log) == [i \in 1..Len(log) |-> format_route_row(log[i])]

\* the for loop of update_results from leg i on, with the accumulators
\* total_jumps and table.rows
RECURSIVE UpdateResultsLoop(_, _, _, _, _)
UpdateResultsLoop(distances, i, range, total_jumps, rows) ==
    IF i > Len(distances) THEN [total_jumps |-> total_jumps, rows |-> rows]
    ELSE LET jumps == IF range > 0 THEN calculate_jumps(distances[i][3], range) ELSE 0
         IN  UpdateResultsLoop(distances, i + 1, range, total_jumps + jumps,
                 Append(rows, [from |-> distances[i][1],
                               to |-> distances[i][2],
                               distance |-> Format2f(distances[i][3]),
                               jumps |-> IF range > 0 THEN ToString(jumps) ELSE "N/A"]))

\* mutant: the total is the ceiling of the total distance / range
update_results_ceiling_of_total(distances, total_distance, is_optimized, range) ==
    LET loop == UpdateResultsLoop(distances, 1, range, 0, <<>>)
        prefix == IF is_optimized THEN "Optimized " ELSE ""
    IN  [rows |-> loop.rows,
         label |-> prefix \o "Total Distance: " \o Format2f(total_distance) \o " Ly",
         jumps_text |-> IF range > 0
                        THEN "Estimated Jumps: " \o ToString(calculate_jumps(total_distance, range))
                        ELSE "Estimated Jumps: N/A"]

\* update_results: the rows of the table, the text of the total label and
\* the text of the jumps label
update_results(distances, total_distance, is_optimized, range) ==
    LET loop == UpdateResultsLoop(distances, 1, range, 0, <<>>)
        prefix == IF is_optimized THEN "Optimized " ELSE ""
    IN  [rows |-> loop.rows,
         label |-> prefix \o "Total Distance: " \o Format2f(total_distance) \o " Ly",
         jumps_text |-> IF range > 0
                        THEN "Estimated Jumps: " \o ToString(loop.total_jumps)
                        ELSE "Estimated Jumps: N/A"]

\* float(jump_range_input.value or 0)
RangeOf(value) == IF value.is_none \/ value.v = 0 THEN 0 ELSE value.v

\* the legs the handler computes for the optimized route
RECURSIVE OptDistances(_, _)
OptDistances(optimized_route, i) ==
    IF i > Len(optimized_route) - 1 THEN <<>>
    ELSE << <<optimized_route[i].name, optimized_route[i + 1].name,
              calculate_distance(optimized_route[i].coordinates,
                                 optimized_route[i + 1].coordinates)>> >>
         \o OptDistances(optimized_route, i + 1)

\* sum(distance for _, _, distance in opt_distances)
RECURSIVE SumDistances(_, _)
SumDistances(distances, i) ==
    IF i > Len(distances) THEN 0 ELSE distances[i][3] + SumDistances(distances, i + 1)

\* ---------------------------------------------------------------- handlers
\* The coroutines calculate_route and handle_upload contain no await that
\* suspends, and add_system suspends only in the coordinate lookup, so each
\* handler below is one step of the event loop, and add_system is two.

\* calculate_route on the live route s, the two log_route calls reading the
\* clock at t1 and t2: the fields and widgets it leaves behind
calculate_route(s, t1, t2) ==
    IF Len(s) < 2
    THEN [jump_range |-> jump_range, route_log |-> route_log,
          results_table |-> results_table, total_label |-> total_label,
          jumps_label |-> jumps_label,
          optimized_results_table |-> optimized_results_table,
          optimized_total_label |-> optimized_total_label,
          optimized_jumps_label |-> optimized_jumps_label,
          route_history_table |-> route_history_table]
    ELSE LET range == RangeOf(jump_range_input)
             entered_route == calculate_route_distances(s)
             distances == entered_route[1]
             total_distance == entered_route[2]
             log1 == log_route(route_log, s, total_distance, t1)
             entered == update_results(distances, total_distance, FALSE, range)
             optimized_route == optimize_route(s)
             opt_distances == OptDistances(optimized_route, 1)
             opt_total_distance == SumDistances(opt_distances, 1)
             log2 == log_route(log1, optimized_route, opt_total_distance, t2)
             optimized == update_results(opt_distances, opt_total_distance, TRUE, range)
         IN  [jump_range |-> range, route_log |-> log2,
              results_table |-> entered.rows, total_label |-> entered.label,
              jumps_label |-> entered.jumps_text,
              optimized_results_table |-> optimized.rows,
              optimized_total_label |-> optimized.label,
              optimized_jumps_label |-> optimized.jumps_text,
              route_history_table |-> HistoryRows(log2)]

\* the next state holds what calculate_route left behind
Leaves(c) ==
    /\ jump_range' = c.jump_range
    /\ route_log' = c.route_log
    /\ results_table' = c.results_table
    /\ total_label' = c.total_label
    /\ jumps_label' = c.jumps_label
    /\ optimized_results_table' = c.optimized_results_table
    /\ optimized_total_label' = c.optimized_total_label
    /\ optimized_jumps_label' = c.optimized_jumps_label
    /\ route_history_table' = c.route_history_table

\* the two readings of the clock in one calculation: no earlier than the
\* last reading, the second no earlier than the first
Readings == { t \in (clock..MaxClock) \X (clock..MaxClock) : t[1] <= t[2] }

\* the history has room for the two records of one more calculation
LogRoom == Len(route_log) + 2 <= MaxLog

results == <<jump_range, route_log, results_table, total_label, jumps_label,
             optimized_results_table, optimized_total_label, optimized_jumps_label,
             route_history_table>>
history == <<issued, origin, cleared_upto>>

\* the user picks or types a system name
SelectSystem ==
    \E n \in TypedNames :
        /\ issued < MaxReq
        /\ system_input' = n
        /\ UNCHANGED <<systems, systems_table, results, jump_range_input,
                       pending, clock, history, ret>>

\* the user fills in the jump range
EnterJumpRange ==
    \E v \in RangeInputs :
        /\ LogRoom
        /\ jump_range_input' = v
        /\ UNCHANGED <<systems, systems_table, results, system_input,
                       pending, clock, history, ret>>

Falsy(value) == value = None \/ value = ""

\* add_system up to its await: the lookup of system_input.value is started
AddSystemClick ==
    IF Falsy(system_input)
    THEN UNCHANGED <<systems, systems_table, results, jump_range_input, system_input,
                     pending, clock, history, ret>>
    ELSE /\ issued < MaxReq
         /\ issued' = issued + 1
         /\ pending' = pending \cup { [id |-> issued + 1, name |-> system_input] }
         /\ UNCHANGED <<systems, systems_table, results, jump_range_input, system_input,
                        clock, origin, cleared_upto, ret>>

\* get_system_coordinates for a lookup that the service answered with
\* coordinates (answered), or that raised or returned no coordinates
get_system_coordinates(system_name, answered) ==
    IF answered THEN Lookup(system_name) ELSE None

\* add_system from its await on: the lookup r returns
AddSystemResume ==
    \E r \in pending, answered \in BOOLEAN :
        LET system_data == get_system_coordinates(r.name, answered)
        IN  /\ pending' = pending \ { r }
            /\ IF answered
               THEN /\ Len(systems) < MaxLen
                    /\ systems' = Append(systems, system_data)
                    /\ systems_table' = SystemRows(systems')
                    /\ IF Len(systems') >= 2
                       THEN /\ LogRoom
                            /\ \E t \in Readings :
                                 /\ Leaves(calculate_route(systems', t[1], t[2]))
                                 /\ clock' = t[2]
                       ELSE UNCHANGED <<results, clock>>
                    /\ system_input' = ""
                    /\ origin' = Append(origin, r.id)
               ELSE UNCHANGED <<systems, systems_table, results, system_input,
                                clock, origin>>
            /\ UNCHANGED <<jump_range_input, issued, cleared_upto, ret>>

\* the Calculate Route button
CalculateRouteClick ==
    /\ Len(systems) >= 2 => LogRoom
    /\ \E t \in Readings :
         /\ Leaves(calculate_route(systems, t[1], t[2]))
         /\ clock' = IF Len(systems) >= 2 THEN t[2] ELSE clock
    /\ UNCHANGED <<systems, systems_table, jump_range_input, system_input,
                   pending, history, ret>>

\* mutant: Clear All empties the history too
clear_systems_and_history ==
    /\ systems' = <<>>
    /\ systems_table' = SystemRows(systems')
    /\ results_table' = <<>>
    /\ optimized_results_table' = <<>>
    /\ total_label' = "Total Distance: 0 Ly"
    /\ optimized_total_label' = "Optimized Total Distance: 0 Ly"
    /\ jumps_label' = "Estimated Jumps: 0"
    /\ optimized_jumps_label' = "Estimated Jumps: 0"
    /\ route_log' = <<>>
    /\ route_history_table' = <<>>
    /\ origin' = <<>>
    /\ cleared_upto' = issued
    /\ UNCHANGED <<jump_range, jump_range_input, system_input, pending, clock, issued, ret>>

\* the Clear All button
clear_systems ==
    /\ systems' = <<>>
    /\ systems_table' = SystemRows(systems')
    /\ results_table' = <<>>
    /\ optimized_results_table' = <<>>
    /\ total_label' = "Total Distance: 0 Ly"
    /\ optimized_total_label' = "Optimized Total Distance: 0 Ly"
    /\ jumps_label' = "Estimated Jumps: 0"
    /\ optimized_jumps_label' = "Estimated Jumps: 0"
    /\ origin' = <<>>
    /\ cleared_upto' = issued
    /\ UNCHANGED <<route_log, jump_range, route_history_table, jump_range_input,
                   system_input, pending, clock, issued, ret>>

\* the Export Route button: export_route_to_csv writes a file on the desktop
\* or fails, the handler notifies either way; the session is left as it was
export_route ==
    \E writable \in BOOLEAN :
        /\ export_route_to_csv(systems, writable).written => systems # <<>>
        /\ UNCHANGED <<systems, systems_table, results, jump_range_input, system_input,
                       pending, clock, history, ret>>

\* the upload widget: a file arrives whose bytes decode
handle_upload ==
    /\ \E file \in Uploads :
         LET call == import_route_from_csv(systems, file)
         IN  IF ~call.success
             THEN UNCHANGED <<systems, systems_table, results, clock, origin>>
             ELSE /\ Len(call.systems) <= MaxLen
                  /\ systems' = call.systems
                  /\ origin' = origin \o [i \in 1..(Len(systems') - Len(systems)) |-> 0]
                  /\ systems_table' = SystemRows(systems')
                  /\ IF Len(systems') >= 2 /\ jump_range > 0
                     THEN /\ LogRoom
                          /\ \E t \in Readings :
                               /\ Leaves(calculate_route(systems', t[1], t[2]))
                               /\ clock' = t[2]
                     ELSE UNCHANGED <<results, clock>>
    /\ UNCHANGED <<jump_range_input, system_input, pending, issued, cleared_upto, ret>>

\* the upload widget: a file arrives whose bytes do not decode
handle_upload_undecodable ==
    UNCHANGED <<systems, systems_table, results, jump_range_input, system_input,
                pending, clock, history, ret>>

Init ==
    /\ systems = <<>>
    /\ route_log = <<>>
    /\ jump_range = 0
    /\ jump_range_input = NoNumber
    /\ system_input = None
    /\ systems_table = <<>>
    /\ results_table = <<>>
    /\ optimized_results_table = <<>>
    /\ total_label = "Total Distance: 0 Ly"
    /\ jumps_label = "Estimated Jumps: 0"
    /\ optimized_total_label = "Optimized Total Distance: 0 Ly"
    /\ optimized_jumps_label = "Estimated Jumps: 0"
    /\ route_history_table = <<>>
    /\ pending = {}
    /\ clock = 0
    /\ issued = 0
    /\ origin = <<>>
    /\ cleared_upto = 0
    /\ ret = [op |-> "none"]

Next ==
    \/ SelectSystem
    \/ EnterJumpRange
    \/ AddSystemClick
    \/ AddSystemResume
    \/ CalculateRouteClick
    \/ clear_systems
    \/ export_route
    \/ handle_upload
    \/ handle_upload_undecodable

\* -------------------------------------------- direct calls of the methods
\* the session as the direct calls leave it alone
shown == <<results_table, total_label, jumps_label, optimized_results_table,
           optimized_total_label, optimized_jumps_label>>
others == <<jump_range_input, system_input, route_history_table, pending, clock,
            issued, cleared_upto>>

MethodInit ==
    /\ systems \in Routes
    /\ route_log = <<>>
    /\ jump_range = 0
    /\ jump_range_input = NoNumber
    /\ system_input = None
    /\ systems_table = SystemRows(systems)
    /\ results_table = <<>>
    /\ optimized_results_table = <<>>
    /\ total_label = "Total Distance: 0 Ly"
    /\ jumps_label = "Estimated Jumps: 0"
    /\ optimized_total_label = "Optimized Total Distance: 0 Ly"
    /\ optimized_jumps_label = "Estimated Jumps: 0"
    /\ route_history_table = <<>>
    /\ pending = {}
    /\ clock = 0
    /\ issued = 0
    /\ origin = [i \in 1..Len(systems) |-> 0]
    /\ cleared_upto = 0
    /\ ret = [op |-> "none"]

\* Each run of MethodSpec is one direct call on a calculator whose route is
\* any route of Routes.
Fresh == ret.op = "none"

CallCalculateRouteDistances ==
    /\ Fresh
    /\ ret' = [op |-> "calculate_route_distances", arg |-> systems,
               distances |-> calculate_route_distances(systems)[1],
               total_distance |-> calculate_route_distances(systems)[2]]
    /\ UNCHANGED <<systems, systems_table, origin, route_log, jump_range, shown, others>>

CallOptimizeRoute ==
    LET call == optimize_route_call(systems)
    IN  /\ Fresh
        /\ ret' = [op |-> "optimize_route", arg |-> systems, result |-> call.result,
                   is_self_systems |-> call.is_self_systems]
        /\ systems' = call.self_systems
        /\ UNCHANGED <<systems_table, origin, route_log, jump_range, shown, others>>

CallCalculateJumps ==
    \E distance \in 0..MaxDist, range \in RangeArgs :
        /\ Fresh
        /\ ret' = [op |-> "calculate_jumps", distance |-> distance, range |-> range,
                   result |-> calculate_jumps(distance, range)]
        /\ UNCHANGED <<systems, systems_table, origin, route_log, jump_range, shown, others>>

\* update_results for the entered route's legs
CallUpdateResults ==
    \E range \in RangeArgs :
        LET entered_route == calculate_route_distances(systems)
            call == update_results(entered_route[1], entered_route[2], FALSE, range)
        IN  /\ Fresh
            /\ ret' = [op |-> "update_results", distances |-> entered_route[1],
                       total_distance |-> entered_route[2], range |-> range]
            /\ results_table' = call.rows
            /\ total_label' = call.label
            /\ jumps_label' = call.jumps_text
            /\ UNCHANGED <<systems, systems_table, origin, route_log, jump_range,
                           optimized_results_table, optimized_total_label,
                           optimized_jumps_label, others>>

CallImportRouteFromCsv ==
    \E file \in CsvFiles :
        LET call == import_route_from_csv(systems, file)
        IN  /\ Fresh
            /\ ret' = [op |-> "import_route_from_csv", arg |-> systems, file |-> file,
                       success |-> call.success, message |-> call.message]
            /\ systems' = call.systems
            /\ origin' = [i \in 1..Len(systems') |-> 0]
            /\ UNCHANGED <<systems_table, route_log, jump_range, shown, others>>

MethodNext ==
    \/ CallCalculateRouteDistances
    \/ CallOptimizeRoute
    \/ CallCalculateJumps
    \/ CallUpdateResults
    \/ CallImportRouteFromCsv

vars == <<systems, route_log, jump_range, jump_range_input, system_input, systems_table,
          results_table, optimized_results_table, total_label, jumps_label,
          optimized_total_label, optimized_jumps_label, route_history_table,
          pending, clock, issued, origin, cleared_upto, ret>>

Spec == Init /\ [][Next]_vars

MethodSpec == MethodInit /\ [][MethodNext]_vars

\* ------------------------------------------------------------- properties
\* the orderings of n positions that keep position 1 first
PinnedOrders(n) ==
    { f \in [1..n -> 1..n] : f[1] = 1 /\ \A i, j \in 1..n : i # j => f[i] # f[j] }

\* the route s visited in the order f
Reorder(s, f) == [i \in 1..Len(s) |-> s[f[i]]]

\* the sum of the numbers of a sequence
RECURSIVE SeqSum(_)
SeqSum(q) == IF q = <<>> THEN 0 ELSE Head(q) + SeqSum(Tail(q))

\* the leg-sum distance of a route
Tour(route) ==
    SeqSum([i \in 1..(Len(route) - 1) |->
              calculate_distance(route[i].coordinates, route[i + 1].coordinates)])

Optimized == ret.op = "optimize_route" /\ Len(ret.arg) >= 2

\* C1: on a route of two or more points optimize_route returns a permutation
\* of the route that keeps its first element and is no longer than any other
\* ordering that keeps the first element.
C1_OptimizeIsShortestPinnedPermutation ==
    Optimized =>
        LET orders == PinnedOrders(Len(ret.arg))
        IN  /\ \E f \in orders : ret.result = Reorder(ret.arg, f)
            /\ ret.result[1] = ret.arg[1]
            /\ \A f \in orders : Tour(ret.result) <= Tour(Reorder(ret.arg, f))

\* C1 witness: a four-point route that the optimizer had to reorder, the
\* result strictly shorter than the route as entered.
C1_Witness ==
    /\ Optimized
    /\ Len(ret.arg) = 4
    /\ ret.result # ret.arg
    /\ Tour(ret.result) < Tour(ret.arg)

\* C2: calculate_jumps with a range <= 0 returns something other than what it
\* returns for zero jumps (distance 0, range > 0).
C2_NotAvailableIsNotZeroJumps ==
    (ret.op = "calculate_jumps" /\ ret.range <= 0) =>
        \A range \in { r \in RangeArgs : r > 0 } : ret.result # calculate_jumps(0, range)

\* q is a prefix of r
IsPrefix(q, r) == Len(q) <= Len(r) /\ SubSeq(r, 1, Len(q)) = q

\* C3: no step removes, reorders or alters a record of route_log: the log
\* before a step is a prefix of the log after it.
C3_HistoryOnlyGrows == [][IsPrefix(route_log, route_log')]_vars

\* C3 witness: after Clear All emptied the live route, the records of two
\* calculations on different routes are all still in the log.
C3_Witness ==
    /\ systems = <<>>
    /\ results_table = <<>>
    /\ Len(route_log) = 4
    /\ route_log[1].systems # route_log[3].systems

\* the names of a and of b are the same multiset
SameNames(a, b) ==
    /\ Len(a) = Len(b)
    /\ \A n \in KnownNames :
           Cardinality({ i \in 1..Len(a) : a[i] = n }) = Cardinality({ i \in 1..Len(b) : b[i] = n })

\* the step appended exactly the two records of one calculation on the live
\* route: the entered route, then the optimized route
TwoRecords ==
    /\ Len(systems') >= 2
    /\ Len(route_log') = Len(route_log) + 2
    /\ IsPrefix(route_log, route_log')
    /\ LET entered == route_log'[Len(route_log) + 1]
           optimized == route_log'[Len(route_log) + 2]
       IN  /\ entered.systems = Names(systems')
           /\ entered.distance = Tour(systems')
           /\ optimized.systems = Names(optimize_route(systems'))
           /\ optimized.distance = Tour(optimize_route(systems'))
           /\ SameNames(entered.systems, optimized.systems)

\* C4: a step either leaves the log alone or appends the two records of one
\* calculation, entered then optimized; Calculate Route on two or more points
\* appends them, also when the same calculation was logged before, and on
\* fewer than two points appends nothing.
C4_TwoRecordsPerCalculation ==
    [][ /\ route_log' # route_log => TwoRecords
        /\ CalculateRouteClick =>
             IF Len(systems) >= 2 THEN TwoRecords ELSE route_log' = route_log ]_vars

\* C4 witness: the same three-point route was calculated twice and the log
\* holds four records, the second pair repeating the first.
C4_Witness ==
    /\ Len(route_log) = 4
    /\ Len(route_log[1].systems) = 3
    /\ route_log[3].systems = route_log[1].systems
    /\ route_log[4].systems = route_log[2].systems
    /\ route_log[3].distance = route_log[1].distance

Imported == ret.op = "import_route_from_csv"

\* every coordinate cell of the row is the text of a number
RowDecodes(row) == row.X \in NumericText /\ row.Y \in NumericText /\ row.Z \in NumericText

FileDecodes(file) ==
    /\ file.readable
    /\ RequiredColumns \subseteq file.columns
    /\ \A i \in 1..Len(file.rows) : RowDecodes(file.rows[i])

\* C5: import_route_from_csv fails exactly when the file cannot be read, a
\* required column is missing or a coordinate does not parse; then the live
\* route is what it was; otherwise all rows are appended to it in file order.
C5_ImportIsAtomic ==
    Imported =>
        /\ ret.success = FileDecodes(ret.file)
        /\ ~ret.success => systems = ret.arg
        /\ ret.success =>
             /\ Len(systems) = Len(ret.arg) + Len(ret.file.rows)
             /\ SubSeq(systems, 1, Len(ret.arg)) = ret.arg
             /\ \A i \in 1..Len(ret.file.rows) :
                  LET row == ret.file.rows[i]
                  IN  systems[Len(ret.arg) + i] =
                        Point(row.name, FloatOf(row.X), FloatOf(row.Y), FloatOf(row.Z))

\* C5 witness: an import into a non-empty route failed on the second row of
\* a file whose first row was good, and the route is as it was.
C5_Witness ==
    /\ Imported
    /\ ~ret.success
    /\ ret.arg # <<>>
    /\ RequiredColumns \subseteq ret.file.columns
    /\ Len(ret.file.rows) = 2
    /\ RowDecodes(ret.file.rows[1])
    /\ ~RowDecodes(ret.file.rows[2])
    /\ systems = ret.arg

\* the least k with k * range >= distance
LeastJumps(distance, range) ==
    CHOOSE k \in 0..distance :
        /\ k * range >= distance
        /\ \A j \in 0..(k - 1) : j * range < distance

\* the sum over the legs of the per-leg least jump count
PerLegJumps(distances, range) ==
    SeqSum([i \in 1..Len(distances) |-> LeastJumps(distances[i][3], range)])

Estimated == ret.op = "update_results" /\ ret.range > 0

\* C6: with a range > 0 update_results shows for each leg the least k with
\* k * range >= leg distance and as the total the sum of these, which is at
\* least the ceiling of total distance / range.
C6_JumpsSummedPerLeg ==
    Estimated =>
        /\ Len(results_table) = Len(ret.distances)
        /\ \A i \in 1..Len(ret.distances) :
               results_table[i].jumps = ToString(LeastJumps(ret.distances[i][3], ret.range))
        /\ jumps_label = "Estimated Jumps: " \o ToString(PerLegJumps(ret.distances, ret.range))
        /\ PerLegJumps(ret.distances, ret.range) >= LeastJumps(ret.total_distance, ret.range)

\* C6 witness: a route whose per-leg sum is larger than the ceiling of its
\* total distance / range.
C6_Witness ==
    /\ Estimated
    /\ Len(ret.distances) >= 2
    /\ PerLegJumps(ret.distances, ret.range) > LeastJumps(ret.total_distance, ret.range)
    /\ jumps_label = "Estimated Jumps: " \o ToString(PerLegJumps(ret.distances, ret.range))

\* f comes before g in lexicographic order of positions
LexBefore(f, g) ==
    \E i \in DOMAIN f : f[i] < g[i] /\ \A j \in 1..(i - 1) : f[j] = g[j]

\* the orderings of s that keep the first element and have the least total
Shortest(s) ==
    LET orders == PinnedOrders(Len(s))
        total == [f \in orders |-> Tour(Reorder(s, f))]
    IN  { f \in orders : \A g \in orders : total[f] <= total[g] }

\* the first of them in lexicographic order of positions
FirstShortest(s) ==
    LET shortest == Shortest(s)
    IN  CHOOSE f \in shortest : \A g \in shortest \ { f } : LexBefore(f, g)

\* C7: among the orderings of least total distance optimize_route returns the
\* first in lexicographic order of the positions in the input.
C7_FirstMinimumWins ==
    Optimized => ret.result = Reorder(ret.arg, FirstShortest(ret.arg))

\* C7 witness: two orderings that name the systems differently tie for the
\* least total, and the one returned is not the first by name.
C7_Witness ==
    /\ Optimized
    /\ \E f, g \in Shortest(ret.arg) :
          /\ ret.result = Reorder(ret.arg, f)
          /\ Names(Reorder(ret.arg, g)) # Names(ret.result)
          /\ LexBefore(f, g)
          /\ \E i \in 1..Len(ret.arg) :
                /\ \A j \in 1..(i - 1) : Reorder(ret.arg, g)[j].name = ret.result[j].name
                /\ Reorder(ret.arg, g)[i].name = "A"
                /\ ret.result[i].name = "D"

Measured == ret.op = "calculate_route_distances"

\* C8: calculate_route_distances on a route of n points returns max(n-1, 0)
\* legs, leg i naming points i and i+1 with their distance, and the sum of
\* the leg distances as the total; nothing and 0 for n < 2.
C8_LegsAndTotal ==
    Measured =>
        LET n == Len(ret.arg)
        IN  /\ Len(ret.distances) = (IF n >= 1 THEN n - 1 ELSE 0)
            /\ \A i \in 1..Len(ret.distances) :
                   ret.distances[i] =
                     <<ret.arg[i].name, ret.arg[i + 1].name,
                       calculate_distance(ret.arg[i].coordinates, ret.arg[i + 1].coordinates)>>
            /\ ret.total_distance = SeqSum([i \in 1..Len(ret.distances) |-> ret.distances[i][3]])
            /\ n < 2 => ret.distances = <<>> /\ ret.total_distance = 0

\* C8 witness: a four-point route measured as three legs with a positive
\* total.
C8_Witness ==
    /\ Measured
    /\ Len(ret.arg) = 4
    /\ Len(ret.distances) = 3
    /\ ret.total_distance = 12 + 5 + 13

Lookups == SelectSeq(origin, LAMBDA id : id > 0)

\* C10: the systems of the live route that lookups appended are in the order
\* the lookups were started, and none of them was started before the last
\* Clear All.
C10_AppendsInIssueOrderAndNotAfterClear ==
    /\ \A i, j \in 1..Len(Lookups) : i < j => Lookups[i] < Lookups[j]
    /\ \A i \in 1..Len(Lookups) : Lookups[i] > cleared_upto

=============================================================================
